---- MODULE Spec2Model ----
(***************************************************************************)
(* Model of two instruction handlers of the liquidity layer:               *)
(*   matching-engine  processor/admin/propose/mod.rs      propose          *)
(*   token-router     processor/redeem_fill/fast.rs       redeem_fast_fill *)
(*                                                                         *)
(* Every instruction runs as one transaction: the handler mutates a        *)
(* working copy of the accounts (work); returning Ok commits the working   *)
(* copy to the ledger, returning Err or panicking discards it.  The        *)
(* handlers are modelled statement by statement, so that the order of      *)
(* their effects and the point at which they fail are part of the model.   *)
(***************************************************************************)
EXTENDS Integers, Sequences, FiniteSets, TLC

---------------------------------------------------------------------------
\* Bounds of the model.

\* Longest redeemer message carried by an attestation.
MaxMsgLen == 2

\* Number of proposals a behaviour creates.
MaxProposals == 2

\* The Clock sysvar advances at most this many slots past its first value.
MaxSlot == 1

\* Number of redeem_fast_fill transactions submitted in a behaviour.
MaxAttempts == 3

\* Largest growth of an account's data one realloc permits (the runtime's
\* MAX_PERMITTED_DATA_INCREASE, 10240 bytes, scaled to the model's sizes).
MaxPermittedDataIncrease == 76

---------------------------------------------------------------------------
\* u64 arithmetic.

\* The modulus of the u64 type.  The model checker's integers are 32 bits
\* wide, so the type is modelled at 30 bits: every sum of two values of the
\* type is still representable, and wrap-around happens at U64Mod.
U64Mod == 1073741824

U64Max == U64Mod - 1

\* a + b does not fit in a u64.
Overflows(a, b) == a + b > U64Max

\* The value a wrapping u64 addition leaves.
WrappingAdd(a, b) == (a + b) % U64Mod

\* u64::saturating_sub.
saturating_sub(a, b) == IF a > b THEN a - b ELSE 0

---------------------------------------------------------------------------
\* Identities and enumerations.

Payers == {"alice", "bob"}

Owner == "owner"

Actions == {"UpdateAuctionParameters", "None"}

Unset == "Unset"

WormholeCctpDeposit == "WormholeCctpDeposit"

FastFill == "FastFill"

FillTypes == {Unset, WormholeCctpDeposit, FastFill}

\* Bump seeds the account derivation hands to the handlers.
Bumps == [proposal |-> 254, prepared_fill |-> 255, custody_token |-> 253]

\* The redeemer message of length n the model uses: bytes 7, 9, 7, ...
Message(n) == [i \in 1..n |-> IF i % 2 = 1 THEN 7 ELSE 9]

Messages == {Message(n) : n \in 0..MaxMsgLen}

---------------------------------------------------------------------------
\* The attestation (fill_vaa) and the message parser.

\* Payload id of a fast fill in the liquidity-layer wire format.
FAST_FILL_ID == 12

\* Payload id of another liquidity-layer message.
SLOW_ORDER_RESPONSE_ID == 14

ParseError == [err |-> "ParseError"]

\* The wire form of a fill: id, source chain, order sender, redeemer, the
\* message length and then the message bytes.
EncodeFastFill(fill) ==
    <<FAST_FILL_ID, fill.source_chain, fill.order_sender, fill.redeemer,
      Len(fill.redeemer_message)>> \o fill.redeemer_message

\* LiquidityLayerMessage::try_from(payload) followed by the view of the message
\* as a fast fill: the typed fill, or ParseError when the payload is not the
\* wire form of a fast fill.
TryFromPayload(payload) ==
    IF /\ Len(payload) >= 5
       /\ payload[1] = FAST_FILL_ID
       /\ Len(payload) = 5 + payload[5]
    THEN [source_chain     |-> payload[2],
          order_sender     |-> payload[3],
          redeemer         |-> payload[4],
          redeemer_message |-> SubSeq(payload, 6, Len(payload))]
    ELSE ParseError

\* The fills the attestations of the model carry.
Fills ==
    {[source_chain |-> 2, order_sender |-> 40 + Len(m), redeemer |-> 60 + Len(m),
      redeemer_message |-> m] : m \in Messages}

\* Payloads that are not a fast fill: another message id, and a fast fill cut
\* short of its declared message length.
MalformedPayloads ==
    {<<SLOW_ORDER_RESPONSE_ID, 2, 40, 60, 0>>, <<FAST_FILL_ID, 2, 41, 61, 1>>}

Payloads == {EncodeFastFill(f) : f \in Fills} \cup MalformedPayloads

\* The digest of an attestation: determined by its payload.
Digest(payload) == <<"digest", payload>>

---------------------------------------------------------------------------
\* Storage: record sizes and the balance they need.

\* Fixed header of a PreparedFill record, in bytes.
HeaderSize == 75

\* PreparedFill::compute_size.
compute_size(payload_len) == HeaderSize + payload_len

\* Per-account storage overhead the rent calculation adds to the data length.
ACCOUNT_STORAGE_OVERHEAD == 128

\* Lamports per byte a rent-exempt account must hold.
LamportsPerByte == 6960

\* Rent::minimum_balance.
minimum_balance(data_len) == (ACCOUNT_STORAGE_OVERHEAD + data_len) * LamportsPerByte

\* AccountInfo::realloc succeeds unless the account would grow by more than the
\* runtime permits in one instruction.
realloc_ok(old_len, new_len) == new_len - old_len <= MaxPermittedDataIncrease

---------------------------------------------------------------------------
\* State.

VARIABLES
    ledger,         \* the committed accounts
    work,           \* the accounts as the running transaction sees them
    tx,             \* the running transaction: its handler's position and locals
    pending,        \* payers whose redeem_fast_fill is submitted and not yet run
    last,           \* how the most recent transaction ended
    clock,          \* the Clock sysvar's slot
    epoch_schedule, \* the EpochSchedule sysvar
    fill_vaa,       \* the attestation account: its payload
    attempts,       \* redeem_fast_fill transactions submitted so far, and whether
                    \* two of them were in flight together against an Unset record
    genesis         \* the counter and the slot the behaviour starts from

vars ==
    <<ledger, work, tx, pending, last, clock, epoch_schedule, fill_vaa, attempts,
      genesis>>

\* A PreparedFill account as account initialisation leaves it: zeroed.
UnsetInfo ==
    [vaa_hash |-> <<>>, bump |-> 0, prepared_custody_token_bump |-> 0,
     redeemer |-> 0, prepared_by |-> "none", fill_type |-> Unset,
     source_chain |-> 0, order_sender |-> 0]

\* A record the CCTP redemption path populated earlier for the fill.
CctpRecord(fill, payload, by) ==
    [info |-> [vaa_hash |-> Digest(payload), bump |-> Bumps.prepared_fill,
               prepared_custody_token_bump |-> Bumps.custody_token,
               redeemer |-> fill.redeemer, prepared_by |-> by,
               fill_type |-> WormholeCctpDeposit,
               source_chain |-> fill.source_chain,
               order_sender |-> fill.order_sender],
     redeemer_message |-> fill.redeemer_message,
     data_len |-> compute_size(Len(fill.redeemer_message)),
     lamports |-> minimum_balance(compute_size(Len(fill.redeemer_message)))]

\* The record before its first redemption: not yet allocated (no data, no
\* balance), allocated at header size with the balance that size needs, or
\* allocated with a balance in excess of what any message needs.
UnsetRecords ==
    {[info |-> UnsetInfo, redeemer_message |-> <<>>, data_len |-> c[1], lamports |-> c[2]] :
        c \in {<<0, 0>>,
               <<HeaderSize, minimum_balance(HeaderSize)>>,
               <<HeaderSize, minimum_balance(compute_size(MaxMsgLen)) + 1>>}}

InitialRecords(payload) ==
    UnsetRecords \cup
        (IF TryFromPayload(payload) = ParseError THEN {}
         ELSE {CctpRecord(TryFromPayload(payload), payload, "bob")})

\* What the payers hold: alice may be unable to fund a record, bob never is.
Poor == 1

Rich == 4 * minimum_balance(compute_size(MaxMsgLen))

InitialPayerBalances == {[alice |-> a, bob |-> Rich] : a \in {Poor, Rich}}

InitialIds == {0, 5}

EpochLengths == {32, 432000}

Idle ==
    [kind |-> "none", who |-> "none", pc |-> "idle", trace |-> <<>>, obs |-> {},
     action |-> "none", key |-> 0, slot |-> 0, fill |-> ParseError, data_len |-> 0]

NoTx == [kind |-> "none", who |-> "none", status |-> "none", at |-> "none",
         trace |-> <<>>, obs |-> {}]

\* Where a behaviour starts: the counter's value and the slot of the clock.
Genesis == {[next_proposal_id |-> k, slot |-> 1000] : k \in InitialIds}

\* Starts at the end of the u64 range: the counter one or two proposals from
\* its largest value, the clock one epoch of 32 slots from the largest slot.
GenesisAtLimit ==
    {[next_proposal_id |-> k, slot |-> U64Max - 32] : k \in {U64Max - 1, U64Max}}

InitFrom(starts) ==
    /\ genesis \in starts
    /\ epoch_schedule \in {[slots_per_epoch |-> e] : e \in EpochLengths}
    /\ fill_vaa \in {[payload |-> p] : p \in Payloads}
    /\ clock = genesis.slot
    /\ \E rec \in InitialRecords(fill_vaa.payload), bal \in InitialPayerBalances :
          ledger = [custodian     |-> [next_proposal_id |-> genesis.next_proposal_id, owner |-> Owner],
                    proposals     |-> <<>>,
                    prepared_fill |-> rec,
                    payer         |-> bal,
                    redeemed      |-> FALSE,
                    ids           |-> <<>>,
                    finalized     |-> 0,
                    written       |-> 0,
                    transfers     |-> 0]
    /\ work = ledger
    /\ tx = Idle
    /\ pending = {}
    /\ last = NoTx
    /\ attempts = [n |-> 0, raced |-> FALSE]

Init == InitFrom(Genesis)

InitAtLimit == InitFrom(GenesisAtLimit)

---------------------------------------------------------------------------
\* How a transaction ends.

Outcome(status, at, obs) ==
    [kind |-> tx.kind, who |-> tx.who, status |-> status, at |-> at,
     trace |-> tx.trace, obs |-> obs]

\* The handler failed (returned Err, or panicked): the runtime discards every
\* change the transaction made, those of the programs it called included.
Abort(status, at, obs) ==
    /\ work' = ledger
    /\ tx' = Idle
    /\ last' = Outcome(status, at, obs)
    /\ UNCHANGED ledger

\* The handler returned Ok(()): the runtime commits the accounts as the
\* transaction left them.
ReturnOk ==
    /\ tx.pc = "return"
    /\ ledger' = work
    /\ tx' = Idle
    /\ last' = Outcome("Ok", "return", tx.obs)
    /\ UNCHANGED <<work, pending, clock, epoch_schedule, fill_vaa, attempts, genesis>>

\* The runtime starts a transaction only when no other transaction holds the
\* accounts it writes: transactions on the same accounts run one at a time.
AccountsFree == tx.pc = "idle"

\* The handler goes on to its next statement.
Step(pc, name) == [tx EXCEPT !.pc = pc, !.trace = Append(@, name)]

---------------------------------------------------------------------------
\* matching-engine: propose.

\* The address of the Proposal account of a propose call: derived from the
\* counter's value when the call's accounts are resolved.
ProposalKey(custodian) == custodian.next_proposal_id

\* A Proposal numbered as if the counter had been incremented before it was
\* created.
NewProposalIdAfterUptick(custodian, bump, action, by, slot_proposed_at, slot_enact_by) ==
    [id               |-> custodian.next_proposal_id + 1,
     bump             |-> bump,
     action           |-> action,
     by               |-> by,
     owner            |-> custodian.owner,
     slot_proposed_at |-> slot_proposed_at,
     slot_enact_by    |-> slot_enact_by,
     slot_enacted_at  |-> "None"]

\* A Proposal owned by its submitter instead of the custodian's owner.
NewProposalOwnedBySubmitter(custodian, bump, action, by, slot_proposed_at, slot_enact_by) ==
    [id               |-> custodian.next_proposal_id,
     bump             |-> bump,
     action           |-> action,
     by               |-> by,
     owner            |-> by,
     slot_proposed_at |-> slot_proposed_at,
     slot_enact_by    |-> slot_enact_by,
     slot_enacted_at  |-> "None"]

\* The Proposal that propose writes.
NewProposal(custodian, bump, action, by, slot_proposed_at, slot_enact_by) ==
    [id               |-> custodian.next_proposal_id,
     bump             |-> bump,
     action           |-> action,
     by               |-> by,
     owner            |-> custodian.owner,
     slot_proposed_at |-> slot_proposed_at,
     slot_enact_by    |-> slot_enact_by,
     slot_enacted_at  |-> "None"]

\* A delay window that ends one slot early.
EnactByOffByOne(slot_proposed_at, slots_per_epoch) == slot_proposed_at + slots_per_epoch - 1

\* slot_proposed_at + epoch_schedule.slots_per_epoch, when it fits.
EnactBy(slot_proposed_at, slots_per_epoch) == slot_proposed_at + slots_per_epoch

\* An increment that skips an id.
UptickByTwo(next_proposal_id) == next_proposal_id + 2

\* custodian.next_proposal_id += 1, when it fits.
Uptick(next_proposal_id) == next_proposal_id + 1

\* A handler that goes on with whatever slot it has when the clock is unreadable.
ClockErrorIgnored(readable) == TRUE

\* The ? on Clock::get(): the handler goes on only when the sysvar was read.
ClockOk(readable) == readable

\* Clock::get().map(|clock| clock.slot)?: the call starts and reads the clock;
\* an unreadable clock is returned as the call's error.
Propose(by, action) ==
    /\ AccountsFree
    /\ Len(ledger.ids) < MaxProposals
    /\ \E readable \in BOOLEAN :
          LET obs == IF readable THEN {} ELSE {"clock_unreadable"}
              started == [Idle EXCEPT !.kind = "propose", !.who = by, !.action = action,
                                      !.key = ProposalKey(ledger.custodian), !.obs = obs]
          IN  IF ClockOk(readable)
              THEN /\ tx' = [started EXCEPT !.pc = "set_inner", !.slot = clock,
                                            !.trace = <<"Clock::get">>]
                   /\ UNCHANGED <<ledger, work, last>>
              ELSE /\ tx' = Idle
                   /\ last' = [kind |-> "propose", who |-> by, status |-> "Err",
                               at |-> "Clock::get", trace |-> <<>>, obs |-> obs]
                   /\ UNCHANGED <<ledger, work>>
    /\ UNCHANGED <<pending, clock, epoch_schedule, fill_vaa, attempts, genesis>>

\* proposal.set_inner(Proposal { .. }).  The sum for slot_enact_by that does not
\* fit a u64 panics in a build with overflow checks and wraps in one without.
ProposeSetInner ==
    /\ tx.pc = "set_inner"
    /\ tx.kind = "propose"
    /\ LET spe == epoch_schedule.slots_per_epoch
           Write(enact_by) ==
               LET proposal == NewProposal(work.custodian, Bumps.proposal, tx.action,
                                           tx.who, tx.slot, enact_by)
               IN  work' = [work EXCEPT !.proposals = (tx.key :> proposal) @@ @,
                                        !.ids = Append(@, proposal.id)]
               /\ tx' = Step("uptick", "set_inner")
               /\ UNCHANGED <<ledger, last>>
       IN  IF Overflows(tx.slot, spe)
           THEN \E checked \in BOOLEAN :
                   IF checked THEN Abort("Panic", "set_inner", tx.obs \cup {"overflow"})
                   ELSE Write(WrappingAdd(tx.slot, spe))
           ELSE Write(EnactBy(tx.slot, spe))
    /\ UNCHANGED <<pending, clock, epoch_schedule, fill_vaa, attempts, genesis>>

\* custodian.next_proposal_id += 1, with the same two outcomes on overflow.
ProposeUptick ==
    /\ tx.pc = "uptick"
    /\ LET id == work.custodian.next_proposal_id
           Write(next) ==
               /\ work' = [work EXCEPT !.custodian.next_proposal_id = next]
               /\ tx' = Step("return", "uptick")
               /\ UNCHANGED <<ledger, last>>
       IN  IF Overflows(id, 1)
           THEN \E checked \in BOOLEAN :
                   IF checked THEN Abort("Panic", "uptick", tx.obs \cup {"overflow"})
                   ELSE Write(WrappingAdd(id, 1))
           ELSE Write(Uptick(id))
    /\ UNCHANGED <<pending, clock, epoch_schedule, fill_vaa, attempts, genesis>>

\* The Clock sysvar advances.
Tick ==
    /\ clock < genesis.slot + MaxSlot
    /\ clock' = clock + 1
    /\ UNCHANGED <<ledger, work, tx, pending, last, epoch_schedule, fill_vaa, attempts,
                   genesis>>

---------------------------------------------------------------------------
\* token-router: redeem_fast_fill.

\* A payer submits a redeem_fast_fill transaction for the attestation.
Submit(payer) ==
    /\ attempts.n < MaxAttempts
    /\ payer \notin pending
    /\ pending' = pending \cup {payer}
    /\ attempts' = [n     |-> attempts.n + 1,
                    raced |-> \/ attempts.raced
                              \/ /\ ledger.prepared_fill.info.fill_type = Unset
                                 /\ \/ pending # {}
                                    \/ tx.kind = "redeem"]
    /\ UNCHANGED <<ledger, work, tx, last, clock, epoch_schedule, fill_vaa, genesis>>

\* A dispatch without the no-op arm.
DispatchAlwaysHandle(fill_type) == "handle_redeem_fast_fill"

\* A dispatch that takes the no-op arm for FastFill only.
DispatchFastFillOnly(fill_type) ==
    IF fill_type = FastFill THEN "redeem_fill_noop" ELSE "handle_redeem_fast_fill"

\* match ctx.accounts.prepared_fill.fill_type { Unset => handle, _ => noop }.
Dispatch(fill_type) ==
    IF fill_type = Unset THEN "handle_redeem_fast_fill" ELSE "redeem_fill_noop"

\* The runtime runs a submitted transaction; redeem_fast_fill dispatches on the
\* record's fill_type.
redeem_fast_fill(payer) ==
    /\ AccountsFree
    /\ payer \in pending
    /\ pending' = pending \ {payer}
    /\ LET arm == Dispatch(work.prepared_fill.info.fill_type)
           started == [Idle EXCEPT !.kind = "redeem", !.who = payer, !.trace = <<arm>>]
       IN  tx' = [started EXCEPT !.pc = IF arm = "handle_redeem_fast_fill"
                                        THEN "complete_fast_fill" ELSE "redeem_fill_noop"]
    /\ UNCHANGED <<ledger, work, last, clock, epoch_schedule, fill_vaa, attempts, genesis>>

\* super::redeem_fill_noop(): returns Ok(()) and touches no account.
redeem_fill_noop ==
    /\ tx.pc = "redeem_fill_noop"
    /\ tx' = [tx EXCEPT !.pc = "return"]
    /\ UNCHANGED <<ledger, work, pending, last, clock, epoch_schedule, fill_vaa, attempts,
                   genesis>>

\* A handler that drops the result of the call.
CpiResultIgnored(accepted) == TRUE

\* The ? on the result of the call into the matching engine: the handler goes
\* on only when the call returned Ok.
CpiOk(accepted) == accepted

\* matching_engine::cpi::complete_fast_fill(..)?.  The matching engine rejects
\* a fill it has already redeemed and may reject any other; accepting a fill
\* marks it redeemed.
HandleCompleteFastFill ==
    /\ tx.pc = "complete_fast_fill"
    /\ \E valid \in BOOLEAN :
          LET accepted == valid /\ ~work.redeemed
              obs == IF accepted THEN tx.obs ELSE tx.obs \cup {"finalize_rejected"}
              called == [work EXCEPT !.redeemed = IF accepted THEN TRUE ELSE @,
                                     !.finalized = IF accepted THEN @ + 1 ELSE @]
          IN  IF CpiOk(accepted)
              THEN /\ work' = called
                   /\ tx' = [Step("parse", "complete_fast_fill") EXCEPT !.obs = obs]
                   /\ UNCHANGED <<ledger, last>>
              ELSE Abort("Err", "complete_fast_fill", obs)
    /\ UNCHANGED <<pending, clock, epoch_schedule, fill_vaa, attempts, genesis>>

\* The fill a defaulted parse result stands for.
DefaultFill ==
    [source_chain |-> 0, order_sender |-> 0, redeemer |-> 0, redeemer_message |-> <<>>]

\* unwrap_or_default in place of unwrap.
UnwrapOrDefault(parsed) ==
    [ok |-> TRUE, value |-> IF parsed = ParseError THEN DefaultFill ELSE parsed]

\* Result::unwrap on the parse result: the value when the result is Ok, a panic
\* otherwise.
Unwrap(parsed) == [ok |-> parsed # ParseError, value |-> parsed]

\* LiquidityLayerMessage::try_from(fill_vaa.payload()).unwrap()
\*     .to_fast_fill_unchecked(), and data_len = compute_size(message length).
\* A required size that leaves the redeemer message out.
DataLenHeaderOnly(fill) == compute_size(0)

\* data_len = PreparedFill::compute_size(fill.redeemer_message_len()).
DataLen(fill) == compute_size(Len(fill.redeemer_message))

HandleParse ==
    /\ tx.pc = "parse"
    /\ LET parsed == TryFromPayload(fill_vaa.payload)
           obs == IF parsed = ParseError THEN tx.obs \cup {"parse_error"} ELSE tx.obs
           fill == Unwrap(parsed).value
       IN  IF Unwrap(parsed).ok
           THEN /\ tx' = [Step("transfer", "parse") EXCEPT
                             !.obs = obs,
                             !.fill = fill,
                             !.data_len = DataLen(fill)]
                /\ UNCHANGED <<ledger, work, last>>
           ELSE Abort("Panic", "parse", obs)
    /\ UNCHANGED <<pending, clock, epoch_schedule, fill_vaa, attempts, genesis>>

\* A fixed transfer of the whole minimum balance.
LamportDiffFixed(data_len, lamports) == minimum_balance(data_len)

\* A handler that resizes without topping the record up.
LamportDiffNone(data_len, lamports) == 0

\* rent.minimum_balance(data_len).saturating_sub(acc_info.lamports()).
LamportDiff(data_len, lamports) == saturating_sub(minimum_balance(data_len), lamports)

\* A handler that drops the result of the transfer.
TransferResultIgnored(funded) == TRUE

\* The ? on the result of the transfer: the handler goes on only when the
\* transfer was made.
TransferOk(funded) == funded

\* system_program::transfer(payer -> prepared_fill, lamport_diff)?: fails when
\* the payer holds less than the amount.
HandleTransfer ==
    /\ tx.pc = "transfer"
    /\ LET amount == LamportDiff(tx.data_len, work.prepared_fill.lamports)
           funded == work.payer[tx.who] >= amount
           obs == IF funded THEN tx.obs ELSE tx.obs \cup {"insufficient_funds"}
       IN  IF TransferOk(funded)
           THEN /\ work' = [work EXCEPT !.payer[tx.who] = @ - amount,
                                        !.prepared_fill.lamports = @ + amount,
                                        !.transfers = @ + 1]
                /\ tx' = [Step("realloc", "transfer") EXCEPT !.obs = obs]
                /\ UNCHANGED <<ledger, last>>
           ELSE Abort("Err", "transfer", obs)
    /\ UNCHANGED <<pending, clock, epoch_schedule, fill_vaa, attempts, genesis>>

\* A handler that drops the result of the resize.
ReallocResultIgnored(permitted) == TRUE

\* The ? on the result of realloc: the handler goes on only when the resize was
\* permitted.
ReallocOk(permitted) == permitted

\* acc_info.realloc(data_len, false)?.
HandleRealloc ==
    /\ tx.pc = "realloc"
    /\ LET permitted == realloc_ok(work.prepared_fill.data_len, tx.data_len)
           obs == IF permitted THEN tx.obs ELSE tx.obs \cup {"realloc_refused"}
       IN  IF ReallocOk(permitted)
           THEN /\ work' = [work EXCEPT !.prepared_fill.data_len = tx.data_len]
                /\ tx' = [Step("set_inner", "realloc") EXCEPT !.obs = obs]
                /\ UNCHANGED <<ledger, last>>
           ELSE Abort("Err", "realloc", obs)
    /\ UNCHANGED <<pending, clock, epoch_schedule, fill_vaa, attempts, genesis>>

\* A PreparedFill with the order's sender recorded as redeemer and the redeemer
\* as sender.
NewPreparedFillSenderAsRedeemer(vaa, fill, payer) ==
    [info |-> [vaa_hash                    |-> Digest(vaa.payload),
               bump                        |-> Bumps.prepared_fill,
               prepared_custody_token_bump |-> Bumps.custody_token,
               redeemer                    |-> fill.order_sender,
               prepared_by                 |-> payer,
               fill_type                   |-> FastFill,
               source_chain                |-> fill.source_chain,
               order_sender                |-> fill.redeemer],
     redeemer_message |-> fill.redeemer_message]

\* A PreparedFill written without the redeemer message.
NewPreparedFillNoMessage(vaa, fill, payer) ==
    [info |-> [vaa_hash                    |-> Digest(vaa.payload),
               bump                        |-> Bumps.prepared_fill,
               prepared_custody_token_bump |-> Bumps.custody_token,
               redeemer                    |-> fill.redeemer,
               prepared_by                 |-> payer,
               fill_type                   |-> FastFill,
               source_chain                |-> fill.source_chain,
               order_sender                |-> fill.order_sender],
     redeemer_message |-> <<>>]

\* The PreparedFill value the handler writes.
NewPreparedFill(vaa, fill, payer) ==
    [info |-> [vaa_hash                    |-> Digest(vaa.payload),
               bump                        |-> Bumps.prepared_fill,
               prepared_custody_token_bump |-> Bumps.custody_token,
               redeemer                    |-> fill.redeemer,
               prepared_by                 |-> payer,
               fill_type                   |-> FastFill,
               source_chain                |-> fill.source_chain,
               order_sender                |-> fill.order_sender],
     redeemer_message |-> fill.redeemer_message]

\* prepared_fill.set_inner(PreparedFill { .. }): the account's data is replaced
\* by the new value; its size and balance are untouched.
HandleSetInner ==
    /\ tx.pc = "set_inner"
    /\ tx.kind = "redeem"
    /\ LET value == NewPreparedFill(fill_vaa, tx.fill, tx.who)
       IN  work' = [work EXCEPT !.prepared_fill.info = value.info,
                                !.prepared_fill.redeemer_message = value.redeemer_message,
                                !.written = @ + 1]
    /\ tx' = Step("return", "set_inner")
    /\ UNCHANGED <<ledger, pending, last, clock, epoch_schedule, fill_vaa, attempts,
                   genesis>>

---------------------------------------------------------------------------

\* The transactions of the matching engine's propose instruction.
NextPropose ==
    \/ \E by \in Payers, action \in Actions : Propose(by, action)
    \/ ProposeSetInner
    \/ ProposeUptick
    \/ Tick
    \/ ReturnOk

\* The transactions of the token router's redeem_fast_fill instruction.
NextRedeem ==
    \/ \E payer \in Payers : Submit(payer)
    \/ \E payer \in Payers : redeem_fast_fill(payer)
    \/ redeem_fill_noop
    \/ HandleCompleteFastFill
    \/ HandleParse
    \/ HandleTransfer
    \/ HandleRealloc
    \/ HandleSetInner
    \/ ReturnOk

Next == NextPropose \/ NextRedeem

SpecPropose == Init /\ [][NextPropose]_vars

SpecRedeem == Init /\ [][NextRedeem]_vars

\* propose at the end of the u64 range.
SpecProposeAtLimit == InitAtLimit /\ [][NextPropose]_vars

Spec == Init /\ [][Next]_vars

---------------------------------------------------------------------------
\* Vocabulary of the properties.

\* The running transaction ends in this step.
Finishes == tx.pc # "idle" /\ tx'.pc = "idle"

\* A propose transaction ends in this step: at its return, or at once on the
\* clock.
ProposeEnds ==
    \/ Finishes /\ tx.kind = "propose"
    \/ tx.pc = "idle" /\ tx'.pc = "idle" /\ last' # last /\ last'.kind = "propose"

\* The committed PreparedFill record.
Record == ledger.prepared_fill

NoOp == <<"redeem_fill_noop">>

\* The fill the attestation carries, when its payload parses.
VaaFill == TryFromPayload(fill_vaa.payload)

\* The balance a record holding the fill's message must have, and what a
\* record with the given balance lacks of it.
Need(fill) == minimum_balance(HeaderSize + Len(fill.redeemer_message))

Shortfall(fill, balance) == IF Need(fill) > balance THEN Need(fill) - balance ELSE 0

OtherPayer(p) == CHOOSE q \in Payers : q # p

\* The committed record outside its balance: its fields, message and size.
Contents(rec) == [info |-> rec.info, redeemer_message |-> rec.redeemer_message,
                  data_len |-> rec.data_len]

---------------------------------------------------------------------------
\* C1  Redemption idempotency.  A redeem_fast_fill that starts on a record whose
\* fill_type is not Unset takes the no-op arm; a transaction on the no-op arm
\* ends with Ok, having called neither the matching engine nor the transfer,
\* resize or write, and leaves every committed account as it was.  The record
\* is written and the fill finalized at most once in a behaviour, and exactly
\* once when the record is a FastFill.
C1_RedemptionIdempotent ==
    [][/\ (tx.pc = "idle" /\ tx'.kind = "redeem" /\ Record.info.fill_type # Unset)
            => (tx'.trace = NoOp /\ tx'.pc = "redeem_fill_noop")
       /\ (Finishes /\ tx.kind = "redeem" /\ tx.trace = NoOp)
            => /\ last'.status = "Ok"
               /\ last'.trace = NoOp
               /\ ledger' = ledger
               /\ work = ledger
       /\ ledger'.written <= 1
       /\ ledger'.finalized <= 1
       /\ ledger'.prepared_fill.info.fill_type = FastFill
            => (ledger'.written = 1 /\ ledger'.finalized = 1)]_vars

\* A call after a successful redemption took the no-op arm.
C1_Witness ==
    /\ last.kind = "redeem"
    /\ last.trace = NoOp
    /\ last.status = "Ok"
    /\ Record.info.fill_type = FastFill
    /\ ledger.written = 1
    /\ attempts.n = 3

---------------------------------------------------------------------------
\* C2  Monotonic proposal ids.  With k the counter's first value and N the
\* number of proposals created so far, the ids created are k, k+1, ..., k+N-1
\* in this order, the Proposal accounts are those of exactly these ids, and
\* Custodian.next_proposal_id is k+N: a failed call consumed no id.
C2_MonotonicIds ==
    LET k == genesis.next_proposal_id
        N == Len(ledger.ids)
    IN  /\ \A i \in 1..N : ledger.ids[i] = k + i - 1
        /\ ledger.custodian.next_proposal_id = k + N
        /\ DOMAIN ledger.proposals = {k + i - 1 : i \in 1..N}
        /\ \A key \in DOMAIN ledger.proposals : ledger.proposals[key].id = key

\* Two proposals were created from counter value 5.
C2_Witness ==
    /\ genesis.next_proposal_id = 5
    /\ ledger.ids = <<5, 6>>
    /\ ledger.custodian.next_proposal_id = 7
    /\ tx.pc = "idle"

---------------------------------------------------------------------------
\* C3  Delay invariant.  Every committed Proposal has slot_enact_by -
\* slot_proposed_at equal to the epoch schedule's slots_per_epoch, and no step
\* removes a committed Proposal or changes its slot_proposed_at or
\* slot_enact_by.
C3_DelayInvariant ==
    [][/\ \A key \in DOMAIN ledger'.proposals :
            ledger'.proposals[key].slot_enact_by - ledger'.proposals[key].slot_proposed_at
                = epoch_schedule.slots_per_epoch
       /\ \A key \in DOMAIN ledger.proposals :
            /\ key \in DOMAIN ledger'.proposals
            /\ ledger'.proposals[key].slot_proposed_at = ledger.proposals[key].slot_proposed_at
            /\ ledger'.proposals[key].slot_enact_by = ledger.proposals[key].slot_enact_by]_vars

\* Two proposals created at different slots are both committed.
C3_Witness ==
    /\ Len(ledger.ids) = 2
    /\ \E a, b \in DOMAIN ledger.proposals :
          ledger.proposals[a].slot_proposed_at < ledger.proposals[b].slot_proposed_at

---------------------------------------------------------------------------
\* C4  Atomicity under finalize failure.  When the matching engine rejects the
\* fill, the redeem_fast_fill transaction ends in that step with an error, the
\* handler having changed no account before it; the committed accounts are
\* unchanged: the record is still Unset with the same size, contents and
\* balance, and every payer's balance is what it was.
C4_FinalizeFailureAtomic ==
    [][(Finishes /\ tx.kind = "redeem" /\ "finalize_rejected" \in last'.obs)
          => /\ last'.status = "Err"
             /\ tx.pc = "complete_fast_fill"
             /\ work = ledger
             /\ ledger' = ledger
             /\ ledger'.prepared_fill.info.fill_type = Unset
             /\ ledger'.prepared_fill = ledger.prepared_fill
             /\ ledger'.payer = ledger.payer
             /\ ledger'.transfers = ledger.transfers]_vars

\* The last transaction was a redemption the matching engine rejected.
C4_Witness ==
    /\ last.kind = "redeem"
    /\ last.status = "Err"
    /\ last.at = "complete_fast_fill"
    /\ "finalize_rejected" \in last.obs
    /\ Record.info.fill_type = Unset
    /\ tx.pc = "idle"

---------------------------------------------------------------------------
\* C5  Record size correctness.  In every committed state a record written by
\* redeem_fast_fill has fill_type FastFill, a size of exactly the header size
\* plus the length of its message and a balance of at least the minimum for
\* that size; and a record whose fill_type is set holds the attestation's
\* message, byte for byte, at a size that fits it exactly.
C5_RecordSizeCorrect ==
    /\ ledger.written >= 1 => Record.info.fill_type = FastFill
    /\ Record.info.fill_type = FastFill
         => /\ Record.data_len = HeaderSize + Len(Record.redeemer_message)
            /\ Record.lamports >= minimum_balance(Record.data_len)
    /\ Record.info.fill_type # Unset
         => /\ VaaFill # ParseError
            /\ Record.redeemer_message = VaaFill.redeemer_message
            /\ Record.data_len = HeaderSize + Len(VaaFill.redeemer_message)

\* A header-sized record was topped up and grown, and holds a committed two-byte
\* message.
C5_Witness ==
    /\ Record.info.fill_type = FastFill
    /\ Len(Record.redeemer_message) = 2
    /\ Record.data_len = 77
    /\ Record.lamports = minimum_balance(77)
    /\ last.status = "Ok"
    /\ tx.pc = "idle"

---------------------------------------------------------------------------
\* C6  Exact top-up.  The transfer step moves exactly
\* max(0, minimum_balance(required size) - the record's balance at that time)
\* from the payer of the call to the record and touches no other balance; a
\* committed first redemption changes the record's balance by exactly that
\* amount computed from its committed balance; the committed balance of the
\* record never decreases, and the payers and the record together hold the same
\* total before and after every step.
C6_ExactTopUp ==
    [][/\ (tx.pc = "transfer" /\ tx'.pc = "realloc")
            => LET amount == Shortfall(tx.fill, work.prepared_fill.lamports)
               IN  /\ work'.prepared_fill.lamports = work.prepared_fill.lamports + amount
                   /\ work'.payer[tx.who] = work.payer[tx.who] - amount
                   /\ work'.payer[OtherPayer(tx.who)] = work.payer[OtherPayer(tx.who)]
       /\ (Finishes /\ tx.kind = "redeem" /\ tx.trace # NoOp /\ last'.status = "Ok")
            => LET amount == Shortfall(tx.fill, ledger.prepared_fill.lamports)
               IN  /\ ledger'.prepared_fill.lamports = ledger.prepared_fill.lamports + amount
                   /\ ledger'.payer[tx.who] = ledger.payer[tx.who] - amount
                   /\ ledger'.payer[OtherPayer(tx.who)] = ledger.payer[OtherPayer(tx.who)]
       /\ ledger'.prepared_fill.lamports >= ledger.prepared_fill.lamports
       /\ ledger'.payer.alice + ledger'.payer.bob + ledger'.prepared_fill.lamports
            = ledger.payer.alice + ledger.payer.bob + ledger.prepared_fill.lamports]_vars

\* A redemption by bob is being committed whose transfer topped the record up
\* from the balance of a header-sized record to that of a two-byte message.
C6_Witness ==
    /\ tx.kind = "redeem"
    /\ tx.pc = "return"
    /\ tx.who = "bob"
    /\ tx.trace # NoOp
    /\ Record.lamports = minimum_balance(HeaderSize)
    /\ work.prepared_fill.lamports = minimum_balance(HeaderSize + 2)
    /\ work.payer.bob = Rich - 2 * LamportsPerByte

---------------------------------------------------------------------------
\* C7  PreparedFill state machine.  The committed fill_type changes only from
\* Unset to FastFill; once it is not Unset, no step changes it or any field of
\* the record (digest, bumps, redeemer, prepared_by, source_chain,
\* order_sender, redeemer_message) or the record's size.
C7_StateMachine ==
    [][/\ ledger'.prepared_fill.info.fill_type # Record.info.fill_type
            => (Record.info.fill_type = Unset
                /\ ledger'.prepared_fill.info.fill_type = FastFill)
       /\ Record.info.fill_type # Unset
            => Contents(ledger'.prepared_fill) = Contents(Record)]_vars

\* After the record became FastFill at alice's hands, bob's redemption ended.
C7_Witness ==
    /\ Record.info.fill_type = FastFill
    /\ Record.info.prepared_by = "alice"
    /\ last.kind = "redeem"
    /\ last.who = "bob"
    /\ tx.pc = "idle"

---------------------------------------------------------------------------
\* C8  Concurrent redemption.  Once two redemptions of the attestation have
\* been in flight together against an Unset record: a redemption that commits
\* the write does so on a committed record that is Unset and not yet written; a
\* redemption that ends when the committed record is no longer Unset took the
\* no-op arm, ended Ok and changed nothing; and the committed state counts at
\* most one write, one finalize call and one transfer, exactly one of each
\* when the record is a FastFill.
C8_ConcurrentRedemption ==
    [][attempts'.raced
          => /\ (Finishes /\ tx.kind = "redeem" /\ tx.trace # NoOp /\ last'.status = "Ok")
                   => (Record.info.fill_type = Unset /\ ledger.written = 0)
             /\ (Finishes /\ tx.kind = "redeem" /\ Record.info.fill_type # Unset)
                   => (tx.trace = NoOp /\ last'.status = "Ok" /\ ledger' = ledger)
             /\ ledger'.written <= 1
             /\ ledger'.finalized <= 1
             /\ ledger'.transfers <= 1
             /\ ledger'.prepared_fill.info.fill_type = FastFill
                   => /\ ledger'.written = 1
                      /\ ledger'.finalized = 1
                      /\ ledger'.transfers = 1]_vars

\* Two redemptions raced for the Unset record; both have run: one wrote the
\* record and the other, by the other payer, took the no-op arm.
C8_Witness ==
    /\ attempts = [n |-> 2, raced |-> TRUE]
    /\ pending = {}
    /\ tx.pc = "idle"
    /\ Record.info.fill_type = FastFill
    /\ ledger.written = 1
    /\ last.trace = NoOp
    /\ last.status = "Ok"
    /\ last.who # Record.info.prepared_by

---------------------------------------------------------------------------
\* C9  Malformed attestation, as amended.  When the payload does not parse, the
\* redeem_fast_fill transaction ends in the parse step by a panic (the unwrap
\* of the parse result), not by a returned error, after the matching engine
\* marked the fill redeemed; nothing is committed: the record is still Unset
\* with its size and balance, the payers' balances are what they were, and the
\* fill is not marked redeemed.
C9_MalformedPanicsNoChange ==
    [][(Finishes /\ tx.kind = "redeem" /\ "parse_error" \in last'.obs)
          => /\ last'.status = "Panic"
             /\ last'.at = "parse"
             /\ tx.pc = "parse"
             /\ work.redeemed /\ work.finalized = ledger.finalized + 1
             /\ ledger' = ledger
             /\ work' = ledger
             /\ ledger'.prepared_fill.info.fill_type = Unset
             /\ ledger'.prepared_fill = Record
             /\ ledger'.payer = ledger.payer
             /\ ~ledger'.redeemed]_vars

\* C9  Malformed attestation, as stated: the transaction ends with a returned
\* error (MalformedAttestation) and nothing is committed.
C9_MalformedReturnsError ==
    [][(Finishes /\ tx.kind = "redeem" /\ "parse_error" \in last'.obs)
          => /\ last'.status = "Err"
             /\ ledger' = ledger
             /\ ledger'.prepared_fill.info.fill_type = Unset
             /\ ledger'.payer = ledger.payer
             /\ ~ledger'.redeemed]_vars

\* The last transaction was a redemption of an unparseable payload.
C9_Witness ==
    /\ last.kind = "redeem"
    /\ "parse_error" \in last.obs
    /\ last.trace = <<"handle_redeem_fast_fill", "complete_fast_fill">>
    /\ VaaFill = ParseError
    /\ Record.info.fill_type = Unset
    /\ ~ledger.redeemed
    /\ tx.pc = "idle"

---------------------------------------------------------------------------
\* C10  TimeUnavailable.  A propose whose Clock::get fails ends there with the
\* propagated error and changes no account.  Every propose ends either with
\* nothing committed, or Ok with both effects committed: the Proposal account
\* of the counter's previous value is written with that id and the counter is
\* one higher.
C10_ProposeAllOrNothing ==
    [][ProposeEnds
          => /\ "clock_unreadable" \in last'.obs
                   => /\ last'.status = "Err"
                      /\ last'.at = "Clock::get"
                      /\ ledger' = ledger
                      /\ work' = ledger
             /\ \/ /\ last'.status # "Ok"
                   /\ ledger' = ledger
                \/ /\ last'.status = "Ok"
                   /\ ledger'.custodian.next_proposal_id
                        = ledger.custodian.next_proposal_id + 1
                   /\ ledger.custodian.next_proposal_id \notin DOMAIN ledger.proposals
                   /\ DOMAIN ledger'.proposals
                        = DOMAIN ledger.proposals \cup {ledger.custodian.next_proposal_id}
                   /\ ledger'.proposals[ledger.custodian.next_proposal_id].id
                        = ledger.custodian.next_proposal_id]_vars

\* A propose failed on the clock after one proposal had been created.
C10_Witness ==
    /\ last.kind = "propose"
    /\ last.status = "Err"
    /\ last.at = "Clock::get"
    /\ "clock_unreadable" \in last.obs
    /\ Len(ledger.ids) = 1
    /\ ledger.custodian.next_proposal_id = genesis.next_proposal_id + 1

---------------------------------------------------------------------------
\* C11  propose postcondition.  A propose that ends Ok has written, at the
\* account of the counter's previous value k, the Proposal with id k, the given
\* action, the submitter as by, the custodian's owner as owner,
\* slot_proposed_at the slot Clock::get returned, slot_enact_by that slot plus
\* slots_per_epoch and slot_enacted_at None, and has left the counter at k + 1.
\* From counter 5 at slot 1000 with 432000 slots per epoch: id 5, enact by
\* 433000, counter 6.
C11_ProposePostcondition ==
    [][(Finishes /\ tx.kind = "propose" /\ last'.status = "Ok")
          => /\ ledger.custodian.next_proposal_id \in DOMAIN ledger'.proposals
             /\ ledger'.proposals[ledger.custodian.next_proposal_id]
                  = [id               |-> ledger.custodian.next_proposal_id,
                     bump             |-> Bumps.proposal,
                     action           |-> tx.action,
                     by               |-> tx.who,
                     owner            |-> ledger.custodian.owner,
                     slot_proposed_at |-> tx.slot,
                     slot_enact_by    |-> tx.slot + epoch_schedule.slots_per_epoch,
                     slot_enacted_at  |-> "None"]
             /\ tx.slot \in genesis.slot..clock
             /\ ledger'.custodian.next_proposal_id = ledger.custodian.next_proposal_id + 1
             /\ (/\ ledger.custodian.next_proposal_id = 5
                 /\ tx.slot = 1000
                 /\ epoch_schedule.slots_per_epoch = 432000)
                  => /\ ledger'.proposals[5].id = 5
                     /\ ledger'.proposals[5].slot_proposed_at = 1000
                     /\ ledger'.proposals[5].slot_enact_by = 433000
                     /\ ledger'.proposals[5].slot_enacted_at = "None"
                     /\ ledger'.custodian.next_proposal_id = 6]_vars

\* The example: proposed at slot 1000 from counter 5 with 432000 slots per
\* epoch.
C11_Witness ==
    /\ genesis.next_proposal_id = 5
    /\ epoch_schedule.slots_per_epoch = 432000
    /\ ledger.custodian.next_proposal_id = 6
    /\ 5 \in DOMAIN ledger.proposals
    /\ ledger.proposals[5].slot_proposed_at = 1000
    /\ ledger.proposals[5].slot_enact_by = 433000
    /\ ledger.proposals[5].action = "UpdateAuctionParameters"
    /\ last.status = "Ok"

---------------------------------------------------------------------------
\* C12  All-or-nothing after finalize.  A redeem_fast_fill whose transfer fails
\* for lack of funds, or whose resize is refused, ends with an error after the
\* matching engine accepted the fill (and, for the resize, after the transfer
\* was made), and commits nothing: the record is still Unset with its size and
\* balance, the payers hold what they held, and the fill is not marked
\* redeemed.
C12_AllOrNothingAfterFinalize ==
    [][(/\ Finishes
        /\ tx.kind = "redeem"
        /\ last'.obs \cap {"insufficient_funds", "realloc_refused"} # {})
          => /\ last'.status = "Err"
             /\ last'.at \in {"transfer", "realloc"}
             /\ work.redeemed
             /\ work.finalized = ledger.finalized + 1
             /\ last'.at = "realloc" => work.transfers = ledger.transfers + 1
             /\ ledger' = ledger
             /\ work' = ledger
             /\ ledger'.prepared_fill = Record
             /\ Record.info.fill_type = Unset
             /\ ledger'.payer = ledger.payer
             /\ ~ledger'.redeemed
             /\ ledger'.finalized = ledger.finalized]_vars

\* A resize was refused after bob had paid the top-up of an unallocated
\* record: bob holds what he started with and the record is still unallocated.
C12_Witness ==
    /\ last.kind = "redeem"
    /\ last.who = "bob"
    /\ last.status = "Err"
    /\ last.at = "realloc"
    /\ "realloc_refused" \in last.obs
    /\ last.trace = <<"handle_redeem_fast_fill", "complete_fast_fill", "parse", "transfer">>
    /\ Record.data_len = 0
    /\ Record.lamports = 0
    /\ ledger.payer.bob = Rich
    /\ ~ledger.redeemed

---------------------------------------------------------------------------
---------------------------------------------------------------------------
\* The statements of a first redemption, in the order handle_redeem_fast_fill
\* executes them.
FirstTimeOrder ==
    <<"handle_redeem_fast_fill", "complete_fast_fill", "parse", "transfer", "realloc",
      "set_inner">>

\* The running transaction has executed the step.
Done(step) == \E i \in 1..Len(tx.trace) : tx.trace[i] = step

IsPrefix(a, b) == Len(a) <= Len(b) /\ a = SubSeq(b, 1, Len(a))

\* C14  Step ordering of a first redemption.  The steps run in the order
\* finalize, parse, transfer, resize, write: until the matching engine has
\* accepted the fill no account differs from its committed value; once the
\* transfer is made the record holds at least the minimum balance of its
\* required size, and it still has its old size until the resize; once resized
\* it has its final size while it is still Unset and without message, until
\* the write; a first redemption that ended Ok executed all the steps.
C14_StepOrder ==
    /\ (tx.kind = "redeem" /\ tx.trace # NoOp)
          => /\ IsPrefix(tx.trace, FirstTimeOrder)
             /\ ~Done("complete_fast_fill") => work = ledger
             /\ (work.prepared_fill # ledger.prepared_fill \/ work.payer # ledger.payer)
                   => work.redeemed /\ work.finalized = ledger.finalized + 1
             /\ Done("transfer")
                   => work.prepared_fill.lamports >= minimum_balance(tx.data_len)
             /\ (Done("transfer") /\ ~Done("realloc"))
                   => work.prepared_fill.data_len = ledger.prepared_fill.data_len
             /\ Done("realloc") => work.prepared_fill.data_len = tx.data_len
             /\ ~Done("set_inner")
                   => /\ work.prepared_fill.info = ledger.prepared_fill.info
                      /\ work.prepared_fill.redeemer_message = <<>>
                      /\ work.written = ledger.written
    /\ (last.kind = "redeem" /\ last.status = "Ok" /\ last.trace # NoOp)
          => last.trace = FirstTimeOrder
    /\ (last.kind = "redeem" /\ last.status # "Ok") => IsPrefix(last.trace, FirstTimeOrder)

\* Between the resize and the write: the record was topped up by alice and
\* grown from the header to its final size, and is still Unset.
C14_Witness ==
    /\ tx.kind = "redeem"
    /\ tx.who = "alice"
    /\ tx.pc = "set_inner"
    /\ tx.trace = SubSeq(FirstTimeOrder, 1, 5)
    /\ ledger.prepared_fill.data_len = HeaderSize
    /\ work.prepared_fill.data_len = HeaderSize + MaxMsgLen
    /\ work.prepared_fill.lamports = minimum_balance(HeaderSize + MaxMsgLen)
    /\ work.payer.alice < ledger.payer.alice
    /\ work.prepared_fill.info.fill_type = Unset
    /\ work.redeemed

---------------------------------------------------------------------------
\* The record's contents are those of a redemption by the payer of the fill f
\* that the attestation carries.
PopulatedFrom(rec, f, payer) ==
    /\ rec.info.vaa_hash = Digest(fill_vaa.payload)
    /\ rec.info.bump = Bumps.prepared_fill
    /\ rec.info.prepared_custody_token_bump = Bumps.custody_token
    /\ rec.info.redeemer = f.redeemer
    /\ rec.info.prepared_by = payer
    /\ rec.info.fill_type = FastFill
    /\ rec.info.source_chain = f.source_chain
    /\ rec.info.order_sender = f.order_sender
    /\ rec.redeemer_message = f.redeemer_message

Blank(rec) == rec.info = UnsetInfo /\ rec.redeemer_message = <<>>

\* C15  Written record contents.  A first redemption that ends Ok commits a
\* record with vaa_hash the attestation's digest, redeemer, source_chain and
\* order_sender those of the fill the attestation encodes, prepared_by the
\* payer of this call, fill_type FastFill and the fill's redeemer message byte
\* for byte.  The fields are written together: a committed record is blank or
\* fully populated, and the only change of a committed record's contents is
\* from blank to fully populated.
C15_WrittenContents ==
    [][/\ (Finishes /\ tx.kind = "redeem" /\ tx.trace # NoOp /\ last'.status = "Ok")
            => \E f \in Fills :
                  /\ fill_vaa.payload = EncodeFastFill(f)
                  /\ PopulatedFrom(ledger'.prepared_fill, f, tx.who)
       /\ ledger'.prepared_fill.info # Record.info
            \/ ledger'.prepared_fill.redeemer_message # Record.redeemer_message
            => /\ Blank(Record)
               /\ \E f \in Fills, payer \in Payers :
                     /\ fill_vaa.payload = EncodeFastFill(f)
                     /\ PopulatedFrom(ledger'.prepared_fill, f, payer)
       /\ \/ Blank(ledger'.prepared_fill)
          \/ ledger'.prepared_fill.info.fill_type = WormholeCctpDeposit
          \/ \E f \in Fills, payer \in Payers :
                /\ fill_vaa.payload = EncodeFastFill(f)
                /\ PopulatedFrom(ledger'.prepared_fill, f, payer)]_vars

\* bob's redemption of the fill with a two-byte message is committed: every
\* field of the record is that of the fill, of the attestation or of bob.
C15_Witness ==
    /\ tx.pc = "idle"
    /\ last.kind = "redeem"
    /\ last.who = "bob"
    /\ last.status = "Ok"
    /\ last.trace # NoOp
    /\ Record.info.prepared_by = "bob"
    /\ Record.info.vaa_hash = Digest(fill_vaa.payload)
    /\ Record.info.redeemer = 62
    /\ Record.info.order_sender = 42
    /\ Record.info.source_chain = 2
    /\ Record.redeemer_message = Message(2)

---------------------------------------------------------------------------
\* C16  propose frame.  A propose that ends Ok changes one field of the
\* Custodian, next_proposal_id, by +1, and leaves its owner; it writes one
\* Proposal account, that of the counter's previous value, whose owner is the
\* custodian's owner at that time, and leaves every Proposal created before as
\* it was; it touches no account of the token router.  No step at all changes
\* the custodian's owner or a Proposal that exists.
C16_ProposeFrame ==
    [][/\ ledger'.custodian.owner = ledger.custodian.owner
       /\ \A id \in DOMAIN ledger.proposals :
             /\ id \in DOMAIN ledger'.proposals
             /\ ledger'.proposals[id] = ledger.proposals[id]
       /\ (ProposeEnds /\ last'.status = "Ok")
            => /\ ledger'.custodian
                    = [ledger.custodian EXCEPT !.next_proposal_id = @ + 1]
               /\ DOMAIN ledger'.proposals
                    = DOMAIN ledger.proposals \cup {ledger.custodian.next_proposal_id}
               /\ ledger.custodian.next_proposal_id \notin DOMAIN ledger.proposals
               /\ ledger'.proposals[ledger.custodian.next_proposal_id].owner
                    = ledger.custodian.owner
               /\ ledger'.prepared_fill = ledger.prepared_fill
               /\ ledger'.payer = ledger.payer
               /\ ledger'.redeemed = ledger.redeemed]_vars

\* bob's proposal was created after alice's: alice's is as it was written,
\* both are owned by the custodian's owner, and the counter has moved twice.
C16_Witness ==
    /\ tx.pc = "idle"
    /\ last.kind = "propose"
    /\ last.who = "bob"
    /\ last.status = "Ok"
    /\ DOMAIN ledger.proposals = {genesis.next_proposal_id, genesis.next_proposal_id + 1}
    /\ ledger.proposals[genesis.next_proposal_id].by = "alice"
    /\ ledger.proposals[genesis.next_proposal_id].slot_proposed_at = genesis.slot
    /\ ledger.proposals[genesis.next_proposal_id + 1].by = "bob"
    /\ ledger.proposals[genesis.next_proposal_id + 1].slot_proposed_at = genesis.slot + 1
    /\ \A id \in DOMAIN ledger.proposals : ledger.proposals[id].owner = Owner
    /\ ledger.custodian = [next_proposal_id |-> genesis.next_proposal_id + 2, owner |-> Owner]

---------------------------------------------------------------------------
\* What makes an attempt abort: the matching engine rejected the fill, the
\* payload did not parse, the payer lacked the funds, the resize was refused.
Failures == {"finalize_rejected", "parse_error", "insufficient_funds", "realloc_refused"}

\* C17  Retry after failure.  An attempt that met one of the failures ends
\* without Ok and leaves the committed accounts as they were, the record still
\* Unset; a redeem_fast_fill that starts on an Unset record takes the full
\* first-time path, whatever happened before.  Over any sequence of attempts
\* at most one finalize, one write and one transfer are committed, exactly
\* one finalize and one write once this path has populated the record, and a
\* payer's balance changes only in the step that commits that one write.
C17_RetryAfterFailure ==
    [][/\ (Finishes /\ tx.kind = "redeem" /\ last'.obs \cap Failures # {})
            => /\ last'.status # "Ok"
               /\ last'.at \in {"complete_fast_fill", "parse", "transfer", "realloc"}
               /\ ledger' = ledger
               /\ work' = ledger
               /\ Record.info.fill_type = Unset
       /\ (Finishes /\ tx.kind = "redeem" /\ last'.status # "Ok")
            => last'.obs \cap Failures # {}
       /\ (tx.pc = "idle" /\ tx'.pc # "idle" /\ tx'.kind = "redeem")
            => (Record.info.fill_type = Unset
                  <=> tx'.trace = <<"handle_redeem_fast_fill">>)
       /\ ledger'.finalized <= 1
       /\ ledger'.written <= 1
       /\ ledger'.transfers <= 1
       /\ ledger'.prepared_fill.info.fill_type = FastFill
            => ledger'.finalized = 1 /\ ledger'.written = 1 /\ ledger'.transfers = 1
       /\ ledger'.payer # ledger.payer
            => /\ ledger.written = 0
               /\ ledger'.written = 1
               /\ ledger'.payer[OtherPayer(tx.who)] = ledger.payer[OtherPayer(tx.who)]
               /\ ledger.payer[tx.who] - ledger'.payer[tx.who]
                    = ledger'.prepared_fill.lamports - Record.lamports]_vars

\* alice's attempt failed for lack of funds and left everything as it was;
\* bob's resubmission has run the full first-time path and is about to commit
\* the one finalize, the one transfer and the one write.
C17_Witness ==
    /\ last.kind = "redeem"
    /\ last.who = "alice"
    /\ last.status = "Err"
    /\ "insufficient_funds" \in last.obs
    /\ tx.kind = "redeem"
    /\ tx.who = "bob"
    /\ tx.pc = "return"
    /\ tx.trace = FirstTimeOrder
    /\ Record.info.fill_type = Unset
    /\ ledger.payer = [alice |-> Poor, bob |-> Rich]
    /\ ledger.finalized = 0
    /\ work.finalized = 1
    /\ work.written = 1
    /\ work.transfers = 1

---------------------------------------------------------------------------
\* C18  No u64 wraparound in propose.  Whatever the counter, the slot and the
\* epoch length are, no committed Proposal has a slot_enact_by below its
\* slot_proposed_at or other than slot_proposed_at + slots_per_epoch without
\* modular reduction, and the counter is its first value plus the number of
\* Proposals created, never wrapped to 0: a call whose sum does not fit a u64
\* fails and changes nothing.
C18_NoWraparound ==
    /\ \A id \in DOMAIN ledger.proposals :
          /\ ledger.proposals[id].slot_enact_by >= ledger.proposals[id].slot_proposed_at
          /\ ledger.proposals[id].slot_enact_by
               = ledger.proposals[id].slot_proposed_at + epoch_schedule.slots_per_epoch
    /\ ledger.custodian.next_proposal_id = genesis.next_proposal_id + Len(ledger.ids)
    /\ ledger.custodian.next_proposal_id >= genesis.next_proposal_id

====
